---- MODULE Spec2Model ----
(***************************************************************************)
(* Model of the PDF -> image conversion service: the request handlers of   *)
(* src/handlers.py (upload, convert, package, cleanup, status), the        *)
(* /api/convert route of src/main.py and PDFConverter of src/convert.py,   *)
(* acting on the upload folder and the output folder.                      *)
(*                                                                         *)
(* File names are sequences of atoms (short strings), so that startswith,  *)
(* endswith, rsplit, lower and upper are computed and not assumed.         *)
(***************************************************************************)
EXTENDS Integers, Sequences, FiniteSets, TLC

\* ------------------------------------------------------------------ bounds
\* Largest page count of an uploaded document.
MaxPages == 2

\* ------------------------------------------------------- program constants
MIN_DPI == 72
MAX_DPI == 1200
DEFAULT_DPI == 96
DEFAULT_FORMAT == "TIFF"
\* Config.ALLOWED_EXTENSIONS: the upload allow-list (PDF only).
ALLOWED_EXTENSIONS == {<<"pdf">>}
\* The extensions get_conversion_status and handle_download_request accept.
IMAGE_EXTENSIONS == {"tiff", "tif", "png", "jpg", "jpeg"}
\* Formats the image library can write (its registry of save handlers).
SAVE_FORMATS == {"TIFF", "PNG", "JPEG", "BMP"}

\* ------------------------------------------------------------ string model
\* str.lower() / str.upper() on one atom.
LowerAtom(a) ==
  CASE a = "PDF" -> "pdf"
    [] a = "TIFF" -> "tiff"
    [] a = "BMP" -> "bmp"
    [] a = "JPG" -> "jpg"
    [] a = "PNG" -> "png"
    [] a = "JPEG" -> "jpeg"
    [] a = "A" -> "a"
    [] OTHER -> a

UpperAtom(a) ==
  CASE a = "pdf" -> "PDF"
    [] a = "tiff" -> "TIFF"
    [] a = "bmp" -> "BMP"
    [] a = "jpg" -> "JPG"
    [] a = "png" -> "PNG"
    [] a = "jpeg" -> "JPEG"
    [] a = "a" -> "A"
    [] OTHER -> a

\* str.lower() on a whole name.
Lower(s) == [i \in 1..Len(s) |-> LowerAtom(s[i])]

\* str.startswith
StartsWith(s, p) == Len(p) <= Len(s) /\ SubSeq(s, 1, Len(p)) = p

\* str.endswith
EndsWith(s, p) == Len(p) <= Len(s) /\ SubSeq(s, Len(s) - Len(p) + 1, Len(s)) = p

\* filename.rsplit('.', 1)[1]: what follows the last dot.
AfterLastDot(s) ==
  LET dots == {i \in 1..Len(s) : s[i] = "."}
      k == CHOOSE i \in dots : \A j \in dots : j <= i
  IN SubSeq(s, k + 1, Len(s))

\* werkzeug secure_filename on names made of letters and dots: strip("._").
RECURSIVE StripLeft(_)
StripLeft(s) ==
  IF s # <<>> /\ Head(s) \in {".", "_"} THEN StripLeft(Tail(s)) ELSE s

RECURSIVE StripRight(_)
StripRight(s) ==
  IF s # <<>> /\ s[Len(s)] \in {".", "_"}
  THEN StripRight(SubSeq(s, 1, Len(s) - 1)) ELSE s

secure_filename(s) == StripRight(StripLeft(s))

\* f"{n:03d}": decimal digits, zero-padded to three.
Digit(d) == CASE d = 0 -> "0" [] d = 1 -> "1" [] d = 2 -> "2" [] d = 3 -> "3"
              [] d = 4 -> "4" [] d = 5 -> "5" [] d = 6 -> "6" [] d = 7 -> "7"
              [] d = 8 -> "8" [] d = 9 -> "9"

Fmt03(n) == <<Digit((n \div 100) % 10), Digit((n \div 10) % 10), Digit(n % 10)>>

\* ------------------------------------------------------------------ inputs
\* uuid4 values handed out by uploads: equal length, none a prefix of another.
UUIDs == {<<"x", "1">>}
\* The unique_id of a request is any string the caller sends: a job's id, an
\* id no upload was given, or a proper prefix of a job's id.
ReqIds == UUIDs \cup {<<"x", "2">>, <<"x">>}
\* Conversions and downloads are requested under full-length ids.
FullIds == UUIDs \cup {<<"x", "2">>}
\* Every id uuid4 can hand out: a second job exists where two jobs are
\* followed side by side.
JobIds == FullIds

\* Names a client can upload under.
UploadNames == { <<>>, <<".", "a", ".", "PDF">>, <<"a", ".", "txt">>,
                 <<"pdf">>, <<"a", ".", "pdf", ".", "txt">> }

\* A document: its page count, or 0 for bytes the PDF library cannot open.
Documents == 0..MaxPages
Readable(doc) == doc >= 1

\* JSON values of the dpi and format fields of a convert request.
JInt(n) == [t |-> "int", n |-> n, s |-> ""]
JStr(s) == [t |-> "str", n |-> 0, s |-> s]
JNull == [t |-> "null", n |-> 0, s |-> ""]
JFloat(n) == [t |-> "float", n |-> n, s |-> ""]

DpiInputs == {JNull, JInt(MIN_DPI - 1), JInt(MIN_DPI), JInt(MAX_DPI),
              JInt(MAX_DPI + 1), JFloat(300)}
FormatInputs == {JNull, JStr("tiff"), JStr("bmp"), JStr("JPG"), JInt(1)}

\* ------------------------------------------------------------------- state
VARIABLES
  uploads,   \* upload folder: file name -> document
  outdirs,   \* output folder, directories: directory name -> set of file names
  archives,  \* output folder, regular files: archive name -> set of entry names
  job,       \* lifecycle of each job id as the handlers' outcomes define it
  last,      \* the request handled last and its response
  cv,        \* a convert request in flight: its position and local variables
  cl,        \* a cleanup request in flight
  pk         \* a package request in flight

vars == <<uploads, outdirs, archives, job, last, cv, cl, pk>>
fs == <<uploads, outdirs, archives>>
inflight == <<cv, cl, pk>>

\* list: the response's files in the order the handler returns them;
\* overwrote: the archive written by a package request replaced an earlier one.
NoRequest == [op |-> "none", id |-> <<>>, outcome |-> "none",
              rendered |-> FALSE, files |-> {}, count |-> 0, status |-> "none",
              list |-> <<>>, overwrote |-> FALSE]

\* A request thread that has not started.
Idle == [pc |-> "idle"]

Init ==
  /\ uploads = <<>>
  /\ outdirs = <<>>
  /\ archives = <<>>
  /\ job = [u \in JobIds |-> "None"]
  /\ last = NoRequest
  /\ cv = Idle
  /\ cl = Idle
  /\ pk = Idle

\* ------------------------------------------------------------------ upload
\* allowed_file looking for the extension anywhere after a dot.
allowed_file_anywhere(filename) ==
  \E i \in 1..Len(filename) :
    /\ i < Len(filename)
    /\ filename[i] = "."
    /\ <<LowerAtom(filename[i + 1])>> \in ALLOWED_EXTENSIONS

\* handlers.allowed_file
allowed_file(filename) ==
  /\ \E i \in 1..Len(filename) : filename[i] = "."
  /\ Lower(AfterLastDot(filename)) \in ALLOWED_EXTENSIONS

UploadName(unique_id, original_filename) ==
  unique_id \o <<"_">> \o original_filename

\* handlers.handle_file_upload: outcome of the checks, in the code's order.
UploadOutcome(tooLarge, hasFile, filename) ==
  IF tooLarge THEN "too_large"
  ELSE IF ~hasFile THEN "no_file"
  ELSE IF filename = <<>> THEN "no_name"
  ELSE IF ~allowed_file(filename) THEN "type_not_allowed"
  ELSE "ok"

handle_file_upload(tooLarge, hasFile, filename, doc, unique_id) ==
  LET outcome == UploadOutcome(tooLarge, hasFile, filename)
      stored == UploadName(unique_id, secure_filename(filename))
  IN /\ IF outcome = "ok"
        THEN /\ uploads' = (stored :> doc) @@ uploads
             /\ job' = [job EXCEPT ![unique_id] = "Uploaded"]
        ELSE UNCHANGED <<uploads, job>>
     /\ last' = [NoRequest EXCEPT !.op = "upload",
                   !.id = IF outcome = "ok" THEN unique_id ELSE <<>>,
                   !.outcome = outcome,
                   !.files = IF outcome = "ok" THEN {stored} ELSE {}]
     /\ UNCHANGED <<outdirs, archives>>

\* An upload request drawn from the given names, documents and fresh ids.
UploadFrom(ids, names, docs) ==
  \E tooLarge \in BOOLEAN, hasFile \in BOOLEAN, filename \in names,
     doc \in docs, unique_id \in ids :
       \* uuid.uuid4(): a value never generated before
       /\ job[unique_id] = "None"
       /\ handle_file_upload(tooLarge, hasFile, filename, doc, unique_id)
       /\ UNCHANGED inflight

Upload == UploadFrom(UUIDs, UploadNames, Documents)

\* ----------------------------------------------------------------- convert
\* handle_pdf_conversion: "if dpi is None: dpi = Config.DEFAULT_DPI".
EffectiveDpi(dpi) == IF dpi = JNull THEN JInt(DEFAULT_DPI) ELSE dpi
EffectiveFormat(fmt) == IF fmt = JNull THEN JStr(DEFAULT_FORMAT) ELSE fmt

\* ValidDpi with both comparisons strict.
ValidDpiExclusive(dpi) == dpi.t = "int" /\ dpi.n > MIN_DPI /\ dpi.n < MAX_DPI

\* handle_pdf_conversion: the DPI check
\* "not isinstance(dpi, int) or dpi < 72 or dpi > 1200" is the rejection.
ValidDpi(dpi) == dpi.t = "int" /\ dpi.n >= MIN_DPI /\ dpi.n <= MAX_DPI

\* os.makedirs(output_dir, exist_ok=True)
makedirs(dirs, d) == IF d \in DOMAIN dirs THEN dirs ELSE (d :> {}) @@ dirs

\* OutputName numbering the pages from 0, as page_num does.
OutputNameZeroBased(filename_prefix, i, output_format) ==
  filename_prefix \o <<"_">> \o Fmt03(i - 1) \o <<".", LowerAtom(output_format)>>

\* PDFConverter.save_images: the name of page i (i from 1).
OutputName(filename_prefix, i, output_format) ==
  filename_prefix \o <<"_">> \o Fmt03(i) \o <<".", LowerAtom(output_format)>>

\* handle_pdf_conversion: filename_prefix=f"converted_{unique_id}"
ConvertedPrefix(unique_id) == <<"converted", "_">> \o unique_id

\* PDFConverter.save_images: the index of the first page whose img.save
\* raises (unknown format: the first page; an I/O error: page failAt),
\* or 0 when every page is saved.
FirstFailure(pages, output_format, failAt) ==
  IF pages = 0 THEN 0
  ELSE IF output_format \notin SAVE_FORMATS THEN 1
  ELSE IF failAt \in 1..pages THEN failAt
  ELSE 0

\* PDFConverter.save_images: the files written before the loop ends or raises.
save_images(pages, filename_prefix, output_format, failAt) ==
  LET k == FirstFailure(pages, output_format, failAt)
      n == IF k = 0 THEN pages ELSE k - 1
  IN {OutputName(filename_prefix, i, output_format) : i \in 1..n}

\* PDFConverter.save_images: saved_files when every page was saved, one
\* path per image in the order of the pages.
saved_files(pages, filename_prefix, output_format) ==
  [i \in 1..pages |-> OutputName(filename_prefix, i, output_format)]

\* A handler body without its except clause: the exception reaches the caller.
Uncaught(outcome) == outcome

\* "except Exception as e: return {'success': False, 'error': ...}" around
\* each handler's body: an exception raised inside becomes an error response.
Caught(outcome) == IF outcome = "raised" THEN "failed" ELSE outcome

\* api_convert and handle_pdf_conversion for one request; file_path is the
\* upload_files[0] of the directory listing, failAt the page whose save hits
\* an I/O error (0: none).
ConvertResult(unique_id, file_path, dpiIn, fmtIn, failAt) ==
  LET dpi == EffectiveDpi(dpiIn)
      fmt == EffectiveFormat(fmtIn)
      doc == uploads[file_path]
      output_format == UpperAtom(fmt.s)
      written == save_images(doc, ConvertedPrefix(unique_id), output_format, failAt)
      dirs1 == makedirs(outdirs, unique_id)
      dirs2 == [dirs1 EXCEPT ![unique_id] = @ \cup written]
  IN IF ~ValidDpi(dpi)
     THEN [outcome |-> "invalid_dpi", dirs |-> outdirs, rendered |-> FALSE,
           files |-> {}, list |-> <<>>]
     ELSE IF fmt.t # "str"        \* output_format.upper() raises
     THEN [outcome |-> Caught("raised"), dirs |-> dirs1, rendered |-> FALSE,
           files |-> {}, list |-> <<>>]
     ELSE IF ~Readable(doc)       \* get_pdf_info: fitz.open raises
     THEN [outcome |-> Caught("raised"), dirs |-> dirs1, rendered |-> FALSE,
           files |-> {}, list |-> <<>>]
     ELSE IF FirstFailure(doc, output_format, failAt) # 0
     THEN [outcome |-> Caught("raised"), dirs |-> dirs2, rendered |-> TRUE,
           files |-> {}, list |-> <<>>]
     ELSE [outcome |-> "ok", dirs |-> dirs2, rendered |-> TRUE, files |-> written,
           list |-> saved_files(doc, ConvertedPrefix(unique_id), output_format)]

\* api_convert: "f for f in os.listdir(UPLOAD_FOLDER) if f.startswith(unique_id)"
UploadFiles(unique_id) == {f \in DOMAIN uploads : StartsWith(f, unique_id)}

\* The lifecycle state a convert response puts the job in.
JobAfterConvert(state, outcome) ==
  CASE outcome = "ok" -> "Converted"
    [] outcome = "failed" -> "Failed"
    [] OTHER -> state

api_convert(unique_id, dpi, fmt, failAt) ==
  IF UploadFiles(unique_id) = {}
  THEN /\ last' = [NoRequest EXCEPT !.op = "convert", !.id = unique_id,
                     !.outcome = "upload_not_found"]
       /\ UNCHANGED <<uploads, outdirs, archives, job>>
  ELSE \E file_path \in UploadFiles(unique_id) :
         LET r == ConvertResult(unique_id, file_path, dpi, fmt, failAt)
         IN /\ outdirs' = r.dirs
            /\ job' = [u \in JobIds |->
                         IF u = unique_id THEN JobAfterConvert(job[u], r.outcome)
                         ELSE job[u]]
            /\ last' = [NoRequest EXCEPT !.op = "convert", !.id = unique_id,
                          !.outcome = r.outcome,
                          !.rendered = r.rendered, !.files = r.files,
                          !.list = r.list,
                          \* 'file_count': len(converted_files)
                          !.count = Len(r.list)]
            /\ UNCHANGED <<uploads, archives>>

\* A convert request drawn from the given ids, dpi and format values.
ConvertFrom(ids, dpis, fmts) ==
  \E unique_id \in ids, dpi \in dpis, fmt \in fmts, failAt \in 0..MaxPages :
       \* a request rejected before the format is read is sent once, with
       \* the remaining fields at their defaults
       /\ (UploadFiles(unique_id) = {} \/ ~ValidDpi(EffectiveDpi(dpi)))
            => (fmt = JNull /\ failAt = 0)
       /\ api_convert(unique_id, dpi, fmt, failAt)
       /\ UNCHANGED inflight

Convert == ConvertFrom(FullIds, DpiInputs, FormatInputs)

\* ------------------------------------------------------------------ status
\* f.lower().endswith(('.tiff', '.tif', '.png', '.jpg', '.jpeg'))
IsImageName(f) == \E e \in IMAGE_EXTENSIONS : EndsWith(Lower(f), <<".", e>>)

\* ConvertedFiles without the extension filter.
ConvertedFilesAll(dirs, unique_id) ==
  IF unique_id \in DOMAIN dirs THEN dirs[unique_id] ELSE {}

\* The listing of the id's output directory filtered by IsImageName; the
\* empty list when the directory does not exist.
ConvertedFiles(dirs, unique_id) ==
  IF unique_id \in DOMAIN dirs THEN {f \in dirs[unique_id] : IsImageName(f)} ELSE {}

\* StatusOf with the two tests in the other order: the upload is looked at
\* before the output files.
StatusOfUploadFirst(ups, dirs, unique_id) ==
  LET upload_files == {f \in DOMAIN ups : StartsWith(f, unique_id)}
      output_files == ConvertedFiles(dirs, unique_id)
  IN IF upload_files # {} THEN "uploaded"
     ELSE IF output_files # {} THEN "completed"
     ELSE "not_found"

\* get_conversion_status: the 'status' field.
StatusOf(ups, dirs, unique_id) ==
  LET upload_files == {f \in DOMAIN ups : StartsWith(f, unique_id)}
      output_files == ConvertedFiles(dirs, unique_id)
  IN IF output_files # {} THEN "completed"
     ELSE IF upload_files # {} THEN "uploaded"
     ELSE "not_found"

get_conversion_status(unique_id) ==
  /\ last' = [NoRequest EXCEPT !.op = "status", !.id = unique_id,
                !.outcome = "ok",
                !.status = StatusOf(uploads, outdirs, unique_id),
                !.files = ConvertedFiles(outdirs, unique_id),
                !.count = Cardinality(ConvertedFiles(outdirs, unique_id))]
  /\ UNCHANGED <<uploads, outdirs, archives, job>>

StatusFrom(ids) ==
  \E unique_id \in ids : get_conversion_status(unique_id) /\ UNCHANGED inflight

Status == StatusFrom(ReqIds)

\* ----------------------------------------------------------------- package
\* os.path.join(output_dir, f) and os.path.basename
PathJoin(dir, f) == dir \o <<"/">> \o f

BaseName(path) ==
  LET seps == {i \in 1..Len(path) : path[i] = "/"}
      k == IF seps = {} THEN 0 ELSE CHOOSE i \in seps : \A j \in seps : j <= i
  IN SubSeq(path, k + 1, Len(path))

\* zip_filename = f"converted_{unique_id}.zip"
ZipName(unique_id) == <<"converted", "_">> \o unique_id \o <<".", "zip">>

\* ZipWrite that leaves an archive already at that path as it is.
ZipKeep(arch, name, entries) ==
  IF name \in DOMAIN arch THEN arch ELSE (name :> entries) @@ arch

\* zipfile.ZipFile(zip_path, 'w') and the zipf.write loop: the file at that
\* path is created or truncated and holds the entries written.
ZipWrite(arch, name, entries) ==
  [n \in DOMAIN arch \cup {name} |-> IF n = name THEN entries ELSE arch[n]]

handle_download_request(unique_id, download_type) ==
  LET converted_files ==
        {PathJoin(unique_id, f) : f \in ConvertedFiles(outdirs, unique_id)}
      entries == {BaseName(path) : path \in converted_files}
  IN IF unique_id \notin DOMAIN outdirs
     THEN /\ last' = [NoRequest EXCEPT !.op = "package", !.id = unique_id,
                        !.outcome = "not_found"]
          /\ UNCHANGED <<uploads, outdirs, archives, job>>
     ELSE IF converted_files = {}
     THEN /\ last' = [NoRequest EXCEPT !.op = "package", !.id = unique_id,
                        !.outcome = "no_files"]
          /\ UNCHANGED <<uploads, outdirs, archives, job>>
     ELSE IF download_type = "zip"
     THEN /\ archives' = ZipWrite(archives, ZipName(unique_id), entries)
          /\ last' = [NoRequest EXCEPT !.op = "package", !.id = unique_id,
                        !.outcome = "ok", !.files = {ZipName(unique_id)},
                        !.count = Cardinality(converted_files),
                        !.overwrote = ZipName(unique_id) \in DOMAIN archives]
          /\ UNCHANGED <<uploads, outdirs, job>>
     ELSE /\ last' = [NoRequest EXCEPT !.op = "list", !.id = unique_id,
                        !.outcome = "ok", !.files = converted_files,
                        !.count = Cardinality(converted_files)]
          /\ UNCHANGED <<uploads, outdirs, archives, job>>

PackageFrom(ids) ==
  \E unique_id \in ids, download_type \in {"zip", "individual"} :
    handle_download_request(unique_id, download_type) /\ UNCHANGED inflight

Package == PackageFrom(FullIds)

\* ----------------------------------------------------------------- cleanup
\* Restriction of a folder to the names outside gone.
Without(folder, gone) == [n \in DOMAIN folder \ gone |-> folder[n]]

\* CleanupUploads matching the whole name instead of its start.
CleanupUploadsExact(ups, unique_id) == {f \in DOMAIN ups : f = unique_id}

\* handle_cleanup, first loop: the upload files to remove.
CleanupUploads(ups, unique_id) == {f \in DOMAIN ups : StartsWith(f, unique_id)}

\* handle_cleanup, second block: the output directory's files, then rmdir.
CleanupOutputs(dirs, unique_id) ==
  IF unique_id \in DOMAIN dirs THEN dirs[unique_id] ELSE {}

\* CleanupZips taking every archive, whatever id its name carries.
CleanupZipsAnyJob(names, unique_id) ==
  {f \in names : /\ StartsWith(f, <<"converted", "_">>)
                 /\ EndsWith(f, <<".", "zip">>)}

\* CleanupZips looking for <id>....zip, without the converted_ prefix.
CleanupZipsNoPrefix(names, unique_id) ==
  {f \in names : /\ StartsWith(f, unique_id)
                 /\ EndsWith(f, <<".", "zip">>)}

\* handle_cleanup, third loop: names of the output folder that start with
\* converted_<id> and end with .zip.
CleanupZips(names, unique_id) ==
  {f \in names : /\ StartsWith(f, <<"converted", "_">> \o unique_id)
                 /\ EndsWith(f, <<".", "zip">>)}

\* CleanedFiles adding one for the output directory it removed.
CleanedFilesAndDir(upload_files, output_files, zip_files) ==
  Cardinality(upload_files) + Cardinality(output_files) + Cardinality(zip_files)
    + (IF output_files # {} THEN 1 ELSE 0)

\* handle_cleanup: cleaned_files, raised by one after each os.remove.
CleanedFiles(upload_files, output_files, zip_files) ==
  Cardinality(upload_files) + Cardinality(output_files) + Cardinality(zip_files)

handle_cleanup(unique_id) ==
  LET upload_files == CleanupUploads(uploads, unique_id)
      output_files == CleanupOutputs(outdirs, unique_id)
      dirs1 == Without(outdirs, {unique_id})
      zip_files == CleanupZips(DOMAIN dirs1 \cup DOMAIN archives, unique_id)
      cleaned_files == CleanedFiles(upload_files, output_files, zip_files)
  IN IF zip_files \cap DOMAIN dirs1 # {}
     THEN \* os.remove on a directory raises: the handler reports a failure
          /\ uploads' = Without(uploads, upload_files)
          /\ outdirs' = dirs1
          /\ last' = [NoRequest EXCEPT !.op = "cleanup", !.id = unique_id,
                        !.outcome = Caught("raised")]
          /\ UNCHANGED <<archives, job>>
     ELSE /\ uploads' = Without(uploads, upload_files)
          /\ outdirs' = dirs1
          /\ archives' = Without(archives, zip_files)
          /\ job' = [u \in JobIds |->
                       IF u = unique_id /\ job[u] # "None" THEN "Cleaned" ELSE job[u]]
          /\ last' = [NoRequest EXCEPT !.op = "cleanup", !.id = unique_id,
                        !.outcome = "ok", !.count = cleaned_files]

CleanupFrom(ids) ==
  \E unique_id \in ids : handle_cleanup(unique_id) /\ UNCHANGED inflight

Cleanup == CleanupFrom(ReqIds)

\* ------------------------------------------------------------ specification
Next == Upload \/ Convert \/ Package \/ Cleanup \/ Status

Spec == Init /\ [][Next]_vars

\* ---------------------------------------------- repeated conversions of a job
\* One job converted again and again with valid options only: the default
\* (TIFF) and PNG formats, the default and the highest dpi.
StoredNames == {<<".", "a", ".", "PDF">>}

ReUpload == UploadFrom(UUIDs, StoredNames, 1..MaxPages)
ReConvert == ConvertFrom(UUIDs, {JNull, JInt(MAX_DPI)}, {JNull, JStr("png")})
RePackage == PackageFrom(UUIDs)
ReCleanup == CleanupFrom(UUIDs)
ReStatus == StatusFrom(UUIDs)

NextReconvert == ReUpload \/ ReConvert \/ RePackage \/ ReCleanup \/ ReStatus

SpecReconvert == Init /\ [][NextReconvert]_vars

\* ------------------------------------------- requests under any id string
\* The routes take the id from the request as it comes: the id of the job,
\* an id no upload returned, or a string a job id starts with.
AnyUpload == UploadFrom(UUIDs, StoredNames, 1..MaxPages)
AnyConvert == ConvertFrom(ReqIds, {JNull}, {JNull})
AnyPackage == PackageFrom(ReqIds)
AnyCleanup == CleanupFrom(ReqIds)
AnyStatus == StatusFrom(ReqIds)

NextAnyId == AnyUpload \/ AnyConvert \/ AnyPackage \/ AnyCleanup \/ AnyStatus

SpecAnyId == Init /\ [][NextAnyId]_vars

\* ------------------------------------------------------ two jobs side by side
\* Two jobs, each uploaded, converted with the default options, packaged,
\* asked for and cleaned in any order.
TwoUpload == UploadFrom(JobIds, StoredNames, 1..MaxPages)
TwoConvert == ConvertFrom(JobIds, {JNull}, {JNull})
TwoPackage == PackageFrom(JobIds)
TwoCleanup == CleanupFrom(JobIds)
TwoStatus == StatusFrom(JobIds)

NextTwo == TwoUpload \/ TwoConvert \/ TwoPackage \/ TwoCleanup \/ TwoStatus

SpecTwo == Init /\ [][NextTwo]_vars

\* --------------------------------------- removals that fail, slow rendering
\* The stage of handle_cleanup at which a removal raises: os.remove of an
\* upload file, os.remove of a file of the output directory, os.rmdir of the
\* output directory, os.remove of an archive; or no removal raises.
Stages == {"none", "upload", "output", "rmdir", "zip"}

\* handle_cleanup when the removal of victim raises at the given stage;
\* removedBefore are the files of that stage the loop removed before it came to
\* victim (os.listdir gives them in any order). The removals of the earlier
\* stages are done, nothing after victim is attempted, and the except
\* clause turns the exception into the error response.
handle_cleanup_raising(unique_id, stage, victim, removedBefore) ==
  LET upload_files == CleanupUploads(uploads, unique_id)
      output_files == CleanupOutputs(outdirs, unique_id)
      dirs1 == Without(outdirs, {unique_id})
      zip_files == CleanupZips(DOMAIN dirs1 \cup DOMAIN archives, unique_id)
                     \cap DOMAIN archives
      stageFiles == CASE stage = "upload" -> upload_files
                      [] stage = "output" -> output_files
                      [] stage = "zip" -> zip_files
                      [] OTHER -> {}
  IN /\ stage # "none"
     /\ stage \in {"output", "rmdir"} => unique_id \in DOMAIN outdirs
     /\ IF stage = "rmdir"
        THEN victim = <<>> /\ removedBefore = {}
        ELSE victim \in stageFiles /\ removedBefore \subseteq stageFiles \ {victim}
     /\ uploads' = IF stage = "upload" THEN Without(uploads, removedBefore)
                   ELSE Without(uploads, upload_files)
     /\ outdirs' = CASE stage = "upload" -> outdirs
                     [] stage = "output" ->
                          [outdirs EXCEPT ![unique_id] = @ \ removedBefore]
                     [] stage = "rmdir" -> [outdirs EXCEPT ![unique_id] = {}]
                     [] stage = "zip" -> dirs1
     /\ archives' = IF stage = "zip" THEN Without(archives, removedBefore)
                    ELSE archives
     /\ last' = [NoRequest EXCEPT !.op = "cleanup", !.id = unique_id,
                   !.outcome = Caught("raised")]
     /\ UNCHANGED job

\* handle_cleanup in an environment where one removal may fail.
handle_cleanup_env(unique_id, stage, victim, removedBefore) ==
  IF stage = "none"
  THEN victim = <<>> /\ removedBefore = {} /\ handle_cleanup(unique_id)
  ELSE handle_cleanup_raising(unique_id, stage, victim, removedBefore)

\* The paths of one job a removal can be asked for.
JobPaths(unique_id) ==
  DOMAIN uploads \cup CleanupOutputs(outdirs, unique_id) \cup DOMAIN archives

\* The time a rendering takes, against the five minutes the conversion
\* is allowed.
RenderTimes == {"within", "beyond"}

\* api_convert for a document whose rendering takes the given time:
\* pdf_to_images renders page after page and reads no clock, and neither
\* handle_pdf_conversion nor api_convert sets a deadline, so the response
\* is the one of api_convert whatever the time.
api_convert_timed(unique_id, dpi, fmt, failAt, elapsed) ==
  /\ elapsed \in RenderTimes
  /\ api_convert(unique_id, dpi, fmt, failAt)

EnvUpload == UploadFrom(UUIDs, StoredNames, Documents)

EnvConvert ==
  \E unique_id \in UUIDs, dpi \in {JNull, JInt(MIN_DPI - 1)},
     fmt \in {JNull, JInt(1)}, failAt \in 0..MaxPages, elapsed \in RenderTimes :
       /\ (UploadFiles(unique_id) = {} \/ ~ValidDpi(EffectiveDpi(dpi)))
            => (fmt = JNull /\ failAt = 0)
       /\ api_convert_timed(unique_id, dpi, fmt, failAt, elapsed)
       /\ UNCHANGED inflight

EnvPackage == PackageFrom(UUIDs)

EnvCleanup ==
  \E unique_id \in UUIDs, stage \in Stages :
    \E victim \in JobPaths(unique_id) \cup {<<>>},
       removedBefore \in SUBSET JobPaths(unique_id) :
         /\ handle_cleanup_env(unique_id, stage, victim, removedBefore)
         /\ UNCHANGED inflight

EnvStatus == StatusFrom(UUIDs)

NextEnv == EnvUpload \/ EnvConvert \/ EnvPackage \/ EnvCleanup \/ EnvStatus

SpecEnv == Init /\ [][NextEnv]_vars

\* ------------------------------------------ requests on one job that overlap
\* The server handles each request in a thread of its own. One convert, one
\* cleanup and one zip download of the same job run here side by side, each
\* split at its accesses to the upload and output folders; the convert uses
\* the default dpi and format. What a thread holds between two accesses
\* (the path it found, a directory listing) is in its record.
RaceUpload == UploadFrom(UUIDs, StoredNames, 1..MaxPages)

\* The response a thread returns with.
Done(outcome) == [pc |-> "done", outcome |-> outcome]

\* api_convert: the listing of the upload folder; no file: 404.
CvLookup ==
  \E unique_id \in UUIDs :
    /\ cv.pc = "idle"
    /\ IF UploadFiles(unique_id) = {}
       THEN cv' = Done("upload_not_found") @@ [id |-> unique_id, created |-> FALSE,
                                              lost |-> TRUE]
       ELSE \E file_path \in UploadFiles(unique_id) :
              cv' = [pc |-> "makedirs", id |-> unique_id, file_path |-> file_path,
                     created |-> FALSE, lost |-> FALSE]
    /\ UNCHANGED <<uploads, outdirs, archives, job, last, cl, pk>>

\* handle_pdf_conversion: os.makedirs(output_dir, exist_ok=True), after the
\* dpi check, which the default dpi passes.
CvMakedirs ==
  /\ cv.pc = "makedirs"
  /\ ValidDpi(EffectiveDpi(JNull))
  /\ outdirs' = makedirs(outdirs, cv.id)
  /\ cv' = [cv EXCEPT !.pc = "info", !.created = cv.id \notin DOMAIN outdirs]
  /\ UNCHANGED <<uploads, archives, job, last, cl, pk>>

\* A convert thread ends in the handler's except clause; lost: the
\* exception is the FileNotFoundError for the upload.
CvRaise(lost) ==
  /\ cv' = Done(Caught("raised")) @@ [id |-> cv.id, created |-> cv.created,
                                      lost |-> lost]
  /\ job' = [job EXCEPT ![cv.id] = JobAfterConvert(@, Caught("raised"))]

\* PDFConverter.get_pdf_info: FileNotFoundError when the path is gone.
CvInfo ==
  /\ cv.pc = "info"
  /\ IF cv.file_path \in DOMAIN uploads /\ Readable(uploads[cv.file_path])
     THEN cv' = [cv EXCEPT !.pc = "render"] /\ UNCHANGED job
     ELSE CvRaise(cv.file_path \notin DOMAIN uploads)
  /\ UNCHANGED <<uploads, outdirs, archives, last, cl, pk>>

\* PDFConverter.pdf_to_images: the same test, then one image for each page.
CvRender ==
  /\ cv.pc = "render"
  /\ IF cv.file_path \in DOMAIN uploads /\ Readable(uploads[cv.file_path])
     THEN /\ cv' = [cv EXCEPT !.pc = "savedir"] @@ [pages |-> uploads[cv.file_path]]
          /\ UNCHANGED job
     ELSE CvRaise(cv.file_path \notin DOMAIN uploads)
  /\ UNCHANGED <<uploads, outdirs, archives, last, cl, pk>>

\* PDFConverter.save_images: os.makedirs(output_path, exist_ok=True).
CvSaveDir ==
  /\ cv.pc = "savedir"
  /\ outdirs' = makedirs(outdirs, cv.id)
  /\ cv' = [cv EXCEPT !.pc = "save",
                      !.created = @ \/ cv.id \notin DOMAIN outdirs] @@ [next |-> 1]
  /\ UNCHANGED <<uploads, archives, job, last, cl, pk>>

\* PDFConverter.save_images: img.save of the next page; it raises when the
\* directory is gone.
CvSave ==
  /\ cv.pc = "save"
  /\ IF cv.id \in DOMAIN outdirs
     THEN /\ outdirs' = [outdirs EXCEPT ![cv.id] = @ \cup
                {OutputName(ConvertedPrefix(cv.id), cv.next, UpperAtom(DEFAULT_FORMAT))}]
          /\ cv' = [cv EXCEPT !.next = @ + 1,
                              !.pc = IF cv.next = cv.pages THEN "sizes" ELSE "save"]
          /\ UNCHANGED job
     ELSE CvRaise(FALSE) /\ UNCHANGED outdirs
  /\ UNCHANGED <<uploads, archives, last, cl, pk>>

\* handle_pdf_conversion: os.path.getsize of every saved file, then the
\* success response.
CvSizes ==
  /\ cv.pc = "sizes"
  /\ IF /\ cv.id \in DOMAIN outdirs
        /\ \A i \in 1..cv.pages :
             OutputName(ConvertedPrefix(cv.id), i, UpperAtom(DEFAULT_FORMAT))
               \in outdirs[cv.id]
     THEN /\ cv' = Done("ok") @@ [id |-> cv.id, created |-> cv.created, lost |-> FALSE]
          /\ job' = [job EXCEPT ![cv.id] = JobAfterConvert(@, "ok")]
     ELSE CvRaise(FALSE)
  /\ UNCHANGED <<uploads, outdirs, archives, last, cl, pk>>

\* handle_cleanup, first loop: the upload files of the id are removed.
ClUploads ==
  \E unique_id \in UUIDs :
    /\ cl.pc = "idle"
    /\ uploads' = Without(uploads, CleanupUploads(uploads, unique_id))
    /\ cl' = [pc |-> "scan", id |-> unique_id,
              count |-> Cardinality(CleanupUploads(uploads, unique_id)),
              \* no conversion is under way or still to come
              settled |-> cv.pc = "done"]
    /\ UNCHANGED <<outdirs, archives, job, last, cv, pk>>

\* handle_cleanup: os.path.exists(output_dir) and os.listdir(output_dir).
ClScan ==
  /\ cl.pc = "scan"
  /\ IF cl.id \in DOMAIN outdirs
     THEN cl' = [cl EXCEPT !.pc = "files"] @@ [listing |-> outdirs[cl.id]]
     ELSE cl' = [cl EXCEPT !.pc = "zips"] @@ [listing |-> {}]
  /\ UNCHANGED <<uploads, outdirs, archives, job, last, cv, pk>>

\* RemovedFiles testing os.path.isfile on the bare name, which is no path
\* of a file: nothing is removed.
RemovedFilesByName(files, listing) == {}

\* os.path.isfile: an entry that is a directory is written with a closing
\* "/"; the handlers create regular files only.
IsFile(entry) == entry[Len(entry)] # "/"

\* handle_cleanup: the entries of the listing that os.path.isfile finds
\* and os.remove removes.
RemovedFiles(files, listing) == {f \in files \cap listing : IsFile(f)}

ClFiles ==
  /\ cl.pc = "files"
  /\ LET gone == IF cl.id \in DOMAIN outdirs
                 THEN RemovedFiles(outdirs[cl.id], cl.listing) ELSE {}
     IN /\ outdirs' = [d \in DOMAIN outdirs |->
                         IF d = cl.id THEN outdirs[d] \ gone ELSE outdirs[d]]
        /\ cl' = [cl EXCEPT !.pc = "rmdir", !.count = @ + Cardinality(gone)]
  /\ UNCHANGED <<uploads, archives, job, last, cv, pk>>

\* CanRmdir removing the directory with whatever is in it, as
\* shutil.rmtree does.
CanRmdirAny(dirs, d) == d \in DOMAIN dirs

\* os.rmdir succeeds on a directory that exists and is empty, and raises
\* OSError otherwise.
CanRmdir(dirs, d) == d \in DOMAIN dirs /\ dirs[d] = {}

\* handle_cleanup: os.rmdir(output_dir).
ClRmdir ==
  /\ cl.pc = "rmdir"
  /\ IF CanRmdir(outdirs, cl.id)
     THEN /\ outdirs' = Without(outdirs, {cl.id})
          /\ cl' = [cl EXCEPT !.pc = "zips"]
     ELSE /\ cl' = Done(Caught("raised")) @@ [id |-> cl.id, count |-> cl.count,
                                              listing |-> cl.listing,
                                              settled |-> cl.settled]
          /\ UNCHANGED outdirs
  /\ UNCHANGED <<uploads, archives, job, last, cv, pk>>

\* handle_cleanup, third loop and the success response.
ClZips ==
  /\ cl.pc = "zips"
  /\ LET zip_files == CleanupZips(DOMAIN archives, cl.id)
     IN /\ archives' = Without(archives, zip_files)
        /\ cl' = Done("ok") @@ [id |-> cl.id, listing |-> cl.listing,
                                settled |-> cl.settled,
                                count |-> cl.count + Cardinality(zip_files)]
  /\ job' = [job EXCEPT ![cl.id] = IF @ # "None" THEN "Cleaned" ELSE @]
  /\ UNCHANGED <<uploads, outdirs, last, cv, pk>>

\* zipfile.ZipFile(zip_path, 'w') creating the file only when it is closed.
ZipOpenLazy(arch, name) == arch

\* zipfile.ZipFile(zip_path, 'w'): the file is created, or truncated, when
\* the archive is opened.
ZipOpen(arch, name) == ZipWrite(arch, name, {})

\* handle_download_request: the existence test and the listing.
PkList ==
  \E unique_id \in UUIDs :
    /\ pk.pc = "idle"
    /\ pk' = IF unique_id \notin DOMAIN outdirs
             THEN Done("not_found") @@ [id |-> unique_id, late |-> FALSE]
             ELSE IF ConvertedFiles(outdirs, unique_id) = {}
             THEN Done("no_files") @@ [id |-> unique_id, late |-> FALSE]
             ELSE [pc |-> "open", id |-> unique_id,
                   converted_files |-> ConvertedFiles(outdirs, unique_id),
                   \* the conversion has returned; a cleanup that began
                   \* after it has not
                   overlap |-> /\ cv.pc = "done"
                               /\ cl.pc # "done"
                               /\ cl.pc # "idle" => cl.settled]
    /\ UNCHANGED <<uploads, outdirs, archives, job, last, cv, cl>>

\* handle_download_request: the archive is opened for writing.
PkOpen ==
  /\ pk.pc = "open"
  /\ archives' = ZipOpen(archives, ZipName(pk.id))
  /\ pk' = [pk EXCEPT !.pc = "write"]
             \* a cleanup has returned since the listing
             @@ [late |-> pk.overlap /\ cl.pc = "done"]
  /\ UNCHANGED <<uploads, outdirs, job, last, cv, cl>>

\* handle_download_request: zipf.write of every listed file, which raises
\* FileNotFoundError at the first file that is gone; the archive is closed
\* with the entries written until then. A file unlinked since it was opened
\* gets the entries but has no name in the folder any more.
PkWrite ==
  /\ pk.pc = "write"
  /\ LET present == pk.converted_files \cap ConvertedFilesAll(outdirs, pk.id)
     IN IF present = pk.converted_files
        THEN /\ archives' = IF ZipName(pk.id) \in DOMAIN archives
                            THEN ZipWrite(archives, ZipName(pk.id), present)
                            ELSE archives
             /\ pk' = Done("ok") @@ [id |-> pk.id, late |-> pk.late]
        ELSE \E written \in SUBSET present :
               /\ archives' = IF ZipName(pk.id) \in DOMAIN archives
                              THEN ZipWrite(archives, ZipName(pk.id), written)
                              ELSE archives
               /\ pk' = Done(Caught("raised")) @@ [id |-> pk.id, late |-> pk.late]
  /\ UNCHANGED <<uploads, outdirs, job, last, cv, cl>>

\* ------------------------------- output directories with entries of any kind
\* A cleanup, split at its folder accesses, of a job whose output directory
\* holds what conversions to TIFF and BMP left and what was put there from
\* outside: a subdirectory.
FOREIGN_ENTRIES == {<<"sub", "/">>}

\* Something other than the handlers puts an entry into an output directory.
ForeignEntry ==
  \E d \in DOMAIN outdirs, entry \in FOREIGN_ENTRIES :
    /\ entry \notin outdirs[d]
    /\ outdirs' = [outdirs EXCEPT ![d] = @ \cup {entry}]
    /\ UNCHANGED <<uploads, archives, job, last, cv, cl, pk>>

EntUpload == UploadFrom(UUIDs, StoredNames, 1..MaxPages)
EntConvert == ConvertFrom(UUIDs, {JNull}, {JNull, JStr("bmp")})

NextEntries ==
  \/ EntUpload \/ EntConvert \/ ForeignEntry
  \/ ClUploads \/ ClScan \/ ClFiles \/ ClRmdir \/ ClZips

SpecEntries == Init /\ [][NextEntries]_vars

NextRace ==
  \/ RaceUpload
  \/ CvLookup \/ CvMakedirs \/ CvInfo \/ CvRender \/ CvSaveDir \/ CvSave \/ CvSizes
  \/ ClUploads \/ ClScan \/ ClFiles \/ ClRmdir \/ ClZips
  \/ PkList \/ PkOpen \/ PkWrite

SpecRace == Init /\ [][NextRace]_vars

\* ---------------------------------------------------- config.get_env_variable
\* Python values the function is called with and returns.
PNone == [t |-> "None", n |-> 0, s |-> <<>>]
PInt(n) == [t |-> "int", n |-> n, s |-> <<>>]
PStr(s) == [t |-> "str", n |-> 0, s |-> s]
PBool(b) == [t |-> "bool", n |-> IF b THEN 1 ELSE 0, s |-> <<>>]
PList == [t |-> "list", n |-> 0, s |-> <<>>]

\* The variables config.py reads, and the strings the environment can hold
\* for one: empty, decimal with and without sign or blanks, and not decimal.
ENV_NAMES == {"TELEGRAM_BOT_TOKEN", "DEFAULT_DPI"}
ENV_STRINGS == { <<>>, <<"9", "6">>, <<"-", "7">>, <<" ", "3", "0", " ">>,
                 <<"a">>, <<"9", ".", "5">>, <<"+", " ", "7">> }
Environments ==
  UNION ({[names -> ENV_STRINGS] : names \in SUBSET {"DEFAULT_DPI"}}
           \cup {[ENV_NAMES -> {<<"9", "6">>, <<"a">>}]})
Defaults == {PNone, PInt(DEFAULT_DPI), PStr(<<"a">>), PList}
CastTypes == {"None", "int", "bool"}

\* str.strip() of blanks.
RECURSIVE StripBlanks(_)
StripBlanks(s) ==
  IF s # <<>> /\ Head(s) = " " THEN StripBlanks(Tail(s))
  ELSE IF s # <<>> /\ s[Len(s)] = " " THEN StripBlanks(SubSeq(s, 1, Len(s) - 1))
  ELSE s

DigitAtoms == {"0", "1", "2", "3", "4", "5", "6", "7", "8", "9"}
DigitValue(c) == CHOOSE d \in 0..9 : Digit(d) = c

RECURSIVE DigitsValue(_)
DigitsValue(s) ==
  IF s = <<>> THEN 0
  ELSE DigitsValue(SubSeq(s, 1, Len(s) - 1)) * 10 + DigitValue(s[Len(s)])

\* int(value): a string is stripped of blanks, then a sign and decimal digits
\* are read; an int is itself; a list has no int (TypeError).
int(value) ==
  IF value.t = "int" THEN [raised |-> FALSE, value |-> value]
  ELSE IF value.t = "str"
  THEN LET t == StripBlanks(value.s)
           signed == t # <<>> /\ Head(t) \in {"+", "-"}
           digits == IF signed THEN Tail(t) ELSE t
           wellformed == digits # <<>> /\ \A i \in 1..Len(digits) : digits[i] \in DigitAtoms
       IN IF wellformed
          THEN [raised |-> FALSE,
                value |-> PInt(IF signed /\ Head(t) = "-"
                               THEN 0 - DigitsValue(digits) ELSE DigitsValue(digits))]
          ELSE [raised |-> TRUE, value |-> PNone]
  ELSE [raised |-> TRUE, value |-> PNone]

\* bool(value): truth of a value; never raises.
bool(value) ==
  [raised |-> FALSE,
   value |-> PBool(CASE value.t = "str" -> value.s # <<>>
                     [] value.t = "int" -> value.n # 0
                     [] value.t = "bool" -> value.n = 1
                     [] OTHER -> FALSE)]

\* cast_type(value), "raised" standing for ValueError or TypeError.
cast(cast_type, value) == IF cast_type = "int" THEN int(value) ELSE bool(value)

\* os.environ.get that leaves the default out.
environ_get_no_default(environ, name, default) ==
  IF name \in DOMAIN environ THEN PStr(environ[name]) ELSE PNone

\* os.environ.get(name, default)
environ_get(environ, name, default) ==
  IF name \in DOMAIN environ THEN PStr(environ[name]) ELSE default

get_env_variable(environ, name, default, required, cast_type) ==
  LET value == environ_get(environ, name, default)
  IN IF required /\ value = PNone
     THEN [outcome |-> "RuntimeError", value |-> PNone]
     ELSE IF cast_type # "None" /\ value # PNone
     THEN LET c == cast(cast_type, value)
          IN IF c.raised THEN [outcome |-> "ValueError", value |-> PNone]
             ELSE [outcome |-> "return", value |-> c.value]
     ELSE [outcome |-> "return", value |-> value]

\* A call of get_env_variable that has not run: its arguments and the
\* environment of the process.
InitConfig ==
  /\ uploads = <<>>
  /\ outdirs = <<>>
  /\ archives = <<>>
  /\ job = [u \in JobIds |-> "None"]
  /\ cv = Idle
  /\ cl = Idle
  /\ pk = Idle
  /\ \E environ \in Environments, name \in ENV_NAMES, default \in Defaults,
        required \in BOOLEAN, cast_type \in CastTypes :
       last = [op |-> "get_env_variable", environ |-> environ, name |-> name,
               default |-> default, required |-> required,
               cast_type |-> cast_type, outcome |-> "none", value |-> PNone]

\* The call runs to its return or its exception.
GetEnvVariable ==
  /\ last.op = "get_env_variable"
  /\ last.outcome = "none"
  /\ LET r == get_env_variable(last.environ, last.name, last.default,
                               last.required, last.cast_type)
     IN last' = [last EXCEPT !.outcome = r.outcome, !.value = r.value]
  /\ UNCHANGED <<uploads, outdirs, archives, job, cv, cl, pk>>

NextConfig == GetEnvVariable

SpecConfig == InitConfig /\ [][NextConfig]_vars

\* ------------------------------------------------- vocabulary of the claims
\* The claims' words, stated on the folders directly and not through the
\* handlers' helpers.
ClaimIsPrefix(p, s) ==
  Len(s) >= Len(p) /\ \A i \in 1..Len(p) : s[i] = p[i]

ClaimHasUpload(id) == \E f \in DOMAIN uploads : ClaimIsPrefix(id, f)

ClaimIsImage(f) ==
  /\ Len(f) >= 2
  /\ f[Len(f) - 1] = "."
  /\ f[Len(f)] \in {"tiff", "tif", "png", "jpg", "jpeg"}

ClaimHasOutput(id) ==
  id \in DOMAIN outdirs /\ \E f \in outdirs[id] : ClaimIsImage(f)

ClaimHasArchive(id) ==
  \E n \in DOMAIN archives : n = <<"converted", "_">> \o id \o <<".", "zip">>

\* No upload file, output directory or archive carries the id.
ClaimNoTrace(id) ==
  /\ ~ClaimHasUpload(id)
  /\ id \notin DOMAIN outdirs
  /\ ~ClaimHasArchive(id)

\* The order of the lifecycle: Uploaded, (Converting,) Converted or Failed,
\* Cleaned.
ClaimRank(state) ==
  CASE state = "None" -> 0
    [] state = "Uploaded" -> 1
    [] state = "Converted" -> 3
    [] state = "Failed" -> 3
    [] state = "Cleaned" -> 4

\* An integer in 72..1200.
ClaimDpiInRange(dpi) == dpi.t = "int" /\ dpi.n \in 72..1200

\* What belongs to a job: its upload files with their content, its output
\* directory with its files, its archives with their entries.
ClaimArtifacts(ups, dirs, arch, id) ==
  <<[f \in {g \in DOMAIN ups : ClaimIsPrefix(id, g)} |-> ups[f]],
    IF id \in DOMAIN dirs THEN {dirs[id]} ELSE {},
    [n \in {m \in DOMAIN arch : ClaimIsPrefix(<<"converted", "_">> \o id, m)} |-> arch[n]]>>

\* The name of the output file of page i: converted_<id>_00i.<ext>.
ClaimPageName(id, i, ext) ==
  <<"converted", "_">> \o id
    \o <<"_", "0", "0", <<"1", "2", "3", "4", "5", "6", "7", "8", "9">>[i]>>
    \o <<".", ext>>

\* A name with the PDF extension.
ClaimPdfName(name) ==
  /\ Len(name) >= 2
  /\ name[Len(name) - 1] = "."
  /\ name[Len(name)] \in {"pdf", "PDF"}

\* ---------------------------------------------------------------------- C1
\* C1: status(id) answers 'completed' when the id's output directory holds a
\* file with an allow-listed image extension, otherwise 'uploaded' when the
\* upload folder holds a file whose name starts with id, otherwise
\* 'not_found'.
C1_StatusClassifies ==
  last.op = "status" =>
    /\ last.outcome = "ok"
    /\ ClaimHasOutput(last.id) => last.status = "completed"
    /\ (~ClaimHasOutput(last.id) /\ ClaimHasUpload(last.id)) => last.status = "uploaded"
    /\ (~ClaimHasOutput(last.id) /\ ~ClaimHasUpload(last.id)) => last.status = "not_found"

\* A status request answered 'completed' while the upload is still staged:
\* the case where the two tests of the classification disagree.
C1_Witness ==
  /\ last.op = "status"
  /\ last.status = "completed"
  /\ ClaimHasUpload(last.id)

\* ---------------------------------------------------------------------- C2
\* C2: once cleanup(id) has returned, no upload file starting with id is
\* left, the output directory of id is gone, no archive of id is left, and
\* status(id) asked next answers 'not_found'.
C2_CleanupRemovesAll ==
  last.op = "cleanup" =>
    /\ ~ClaimHasUpload(last.id)
    /\ last.id \notin DOMAIN outdirs
    /\ ~ClaimHasArchive(last.id)
    /\ StatusOf(uploads, outdirs, last.id) = "not_found"

\* A cleanup of a job that had its upload, an output file and an archive.
C2_Witness ==
  /\ last.op = "cleanup"
  /\ last.id \in UUIDs
  /\ last.count >= 3

\* ---------------------------------------------------------------------- C3
\* C3: for a job id taken through upload, convert and cleanup in turn,
\* status(id) is 'uploaded' after the upload, 'completed' after a conversion
\* that returned success, and 'not_found' after the cleanup.
C3_StatusFollowsLifecycle ==
  last.id \in UUIDs =>
    /\ (last.op = "upload" /\ last.outcome = "ok")
         => StatusOf(uploads, outdirs, last.id) = "uploaded"
    /\ (last.op = "convert" /\ last.outcome = "ok")
         => StatusOf(uploads, outdirs, last.id) = "completed"
    /\ (last.op = "cleanup" /\ last.outcome = "ok")
         => StatusOf(uploads, outdirs, last.id) = "not_found"

\* ---------------------------------------------------------------------- C4
\* C4: in every reachable state a job has output files exactly when it is
\* Converted (its conversion succeeded and it was not cleaned since); a
\* convert that ends in an error, also after some pages were written, leaves
\* no output file and does not make status(id) answer 'completed'.
C4_OutputsIffConverted ==
  /\ \A u \in UUIDs :
       (u \in DOMAIN outdirs /\ outdirs[u] # {}) <=> job[u] = "Converted"
  /\ (last.op = "convert" /\ last.outcome = "failed") =>
       /\ last.id \in DOMAIN outdirs => outdirs[last.id] = {}
       /\ StatusOf(uploads, outdirs, last.id) # "completed"

\* ---------------------------------------------------------------------- C5
\* C5: over any sequence of upload, convert, package, status and cleanup
\* requests no job moves to an earlier lifecycle state, and a job that is
\* Cleaned stays Cleaned and leaves no upload file, output directory or
\* archive carrying its id, whatever is requested afterwards.
C5_Monotonic ==
  [][\A u \in UUIDs :
       /\ ClaimRank(job'[u]) >= ClaimRank(job[u])
       /\ job[u] = "Cleaned" => job'[u] = "Cleaned"
       /\ job'[u] = "Cleaned" => ClaimNoTrace(u)']_vars

\* A conversion requested for a job after its cleanup.
C5_Witness ==
  /\ last.op = "convert"
  /\ last.id \in UUIDs
  /\ job[last.id] = "Cleaned"

\* ---------------------------------------------------------------------- C6
\* C6: a conversion request whose dpi is not an integer in 72..1200 is
\* answered with the validation error, without rendering and with the three
\* folders unchanged; every integer dpi in 72..1200 passes the validation.
C6_DpiValidatedFirst ==
  [][\A id \in FullIds, dpi \in DpiInputs \ {JNull}, fmt \in FormatInputs,
        failAt \in 0..MaxPages :
       (/\ last'.op = "convert"
        /\ ClaimHasUpload(id)
        /\ api_convert(id, dpi, fmt, failAt))
       => IF ClaimDpiInRange(dpi)
          THEN last'.outcome # "invalid_dpi"
          ELSE /\ last'.outcome = "invalid_dpi"
               /\ ~last'.rendered
               /\ fs' = fs]_vars

\* A conversion of a staged upload refused for its dpi.
C6_Witness ==
  /\ last.op = "convert"
  /\ last.outcome = "invalid_dpi"
  /\ ClaimHasUpload(last.id)

\* ---------------------------------------------------------------------- C7
\* C7: the output format is validated before the renderer runs: a
\* conversion request with an invalid output format never reaches
\* pdf_to_images and creates no output directory.
C7_FormatValidatedFirst ==
  [][\A id \in FullIds, dpi \in DpiInputs, fmt \in {JStr("JPG"), JInt(1)},
        failAt \in 0..MaxPages :
       (/\ last'.op = "convert"
        /\ ClaimHasUpload(id)
        /\ api_convert(id, dpi, fmt, failAt))
       => /\ ~last'.rendered
          /\ id \notin DOMAIN outdirs => id \notin DOMAIN outdirs']_vars

\* ---------------------------------------------------------------------- C8
\* C8: an upload with no file, with an empty name or with a name that lacks
\* the PDF extension gets an error, no job id is assigned and the upload
\* folder is left as it was.
C8_RejectedUploadWritesNothing ==
  [][\A tooLarge \in BOOLEAN, hasFile \in BOOLEAN, filename \in UploadNames,
        doc \in Documents, unique_id \in UUIDs :
       (/\ last'.op = "upload"
        /\ ~hasFile \/ filename = <<>> \/ ~ClaimPdfName(filename)
        /\ handle_file_upload(tooLarge, hasFile, filename, doc, unique_id))
       => /\ last'.outcome \in {"too_large", "no_file", "no_name", "type_not_allowed"}
          /\ last'.id = <<>>
          /\ uploads' = uploads
          /\ job' = job]_vars

\* An upload refused for its extension.
C8_Witness ==
  /\ last.op = "upload"
  /\ last.outcome = "type_not_allowed"

\* ---------------------------------------------------------------------- C9
\* C9: package(id) after a successful convert(id) produces the archive of
\* id, whose entries are exactly the base names of the output files of id
\* at that moment, and reports as file count the number of entries.
C9_PackageExactlyOutputs ==
  (last.op = "package" /\ last.id \in UUIDs /\ job[last.id] = "Converted") =>
    /\ last.outcome = "ok"
    /\ ClaimHasArchive(last.id)
    /\ archives[<<"converted", "_">> \o last.id \o <<".", "zip">>]
         = {f \in outdirs[last.id] : ClaimIsImage(f)}
    /\ last.count
         = Cardinality(archives[<<"converted", "_">> \o last.id \o <<".", "zip">>])

\* --------------------------------------------------------------------- C10
\* C10: package(id) answers with a not-found error and neither creates nor
\* changes an archive when the output directory of id is absent or holds no
\* file with an allow-listed image extension.
C10_PackageNotFound ==
  [][\A id \in FullIds, download_type \in {"zip", "individual"} :
       (/\ ~ClaimHasOutput(id)
        /\ handle_download_request(id, download_type))
       => /\ last'.outcome \in {"not_found", "no_files"}
          /\ archives' = archives]_vars

\* A package request refused although the output directory holds files.
C10_Witness ==
  /\ last.op = "package"
  /\ last.outcome = "no_files"
  /\ outdirs[last.id] # {}

\* --------------------------------------------------------------------- C16
\* C16: a successful convert of an N-page document returns exactly N output
\* files in page order; the i-th is named converted_<id>_00i.<ext>, so the
\* names are pairwise distinct, and each is a file of the output directory.
C16_OneFilePerPage ==
  (last.op = "convert" /\ last.outcome = "ok") =>
    \A f \in DOMAIN uploads :
      ClaimIsPrefix(last.id, f) =>
        /\ Len(last.list) = uploads[f]
        /\ last.count = uploads[f]
        /\ \E ext \in {"tiff", "bmp", "png"} :
             \A i \in 1..uploads[f] : last.list[i] = ClaimPageName(last.id, i, ext)
        /\ \A i, j \in 1..uploads[f] : i # j => last.list[i] # last.list[j]
        /\ \A i \in 1..uploads[f] : last.list[i] \in outdirs[last.id]

\* A successful conversion of a document of more than one page.
C16_Witness ==
  /\ last.op = "convert"
  /\ last.outcome = "ok"
  /\ Len(last.list) >= 2

\* --------------------------------------------------------------------- C17
\* C17: after a successful convert(id) that follows an earlier successful
\* convert(id), with the same or with other options, the output directory of
\* id holds exactly the files the second conversion returned.
C17_ReconvertReplaces ==
  [][\A id \in UUIDs, dpi \in {JNull, JInt(MAX_DPI)}, fmt \in {JNull, JStr("png")} :
       (/\ job[id] = "Converted"
        /\ api_convert(id, dpi, fmt, 0)
        /\ last'.outcome = "ok")
       => outdirs'[id] = last'.files]_vars

\* --------------------------------------------------------------------- C20
\* C20: while the job has output files, every package(id) succeeds and
\* leaves one archive for id whose entries are the output files of that
\* moment, whatever an earlier archive held; it changes neither the upload
\* folder nor the output directories nor the answer of status(id).
C20_PackageRepeatable ==
  [][\A id \in FullIds :
       (/\ ClaimHasOutput(id)
        /\ handle_download_request(id, "zip"))
       => /\ last'.outcome = "ok"
          /\ ClaimHasArchive(id)'
          /\ archives'[<<"converted", "_">> \o id \o <<".", "zip">>]
               = {f \in outdirs[id] : ClaimIsImage(f)}
          /\ \A n \in DOMAIN archives' :
               ClaimIsPrefix(<<"converted", "_">> \o id, n)
                 => n = <<"converted", "_">> \o id \o <<".", "zip">>
          /\ uploads' = uploads
          /\ outdirs' = outdirs
          /\ StatusOf(uploads', outdirs', id) = StatusOf(uploads, outdirs, id)]_vars

\* A package request that replaced the archive of an earlier one.
C20_Witness ==
  /\ last.op = "package"
  /\ last.outcome = "ok"
  /\ last.overwrote
  /\ last.count >= 2

\* --------------------------------------------------------------------- C11
\* C11: when one removal of cleanup(id) fails, cleanup still attempts the
\* remaining removals and answers with success: afterwards nothing of the
\* job is left but what could not be removed (the file, or the output
\* directory with at most that file in it).
C11_CleanupBestEffort ==
  [][\A id \in UUIDs, stage \in Stages \ {"none"} :
       \A victim \in JobPaths(id) \cup {<<>>}, removedBefore \in SUBSET JobPaths(id) :
         handle_cleanup_env(id, stage, victim, removedBefore)
         => /\ last'.outcome = "ok"
            /\ \A f \in DOMAIN uploads' : ClaimIsPrefix(id, f) => f = victim
            /\ id \in DOMAIN outdirs' =>
                 (stage \in {"output", "rmdir"} /\ outdirs'[id] \subseteq {victim})
            /\ \A n \in DOMAIN archives' :
                 ClaimIsPrefix(<<"converted", "_">> \o id, n) => n = victim]_vars

\* --------------------------------------------------------------------- C14
\* C14: whatever fails inside an operation (an unreadable document, a page
\* that cannot be written, a format that is no string, a removal that
\* fails), the caller gets a response that is a success or one of the error
\* values; no exception reaches it.
C14_StructuredOutcome ==
  last.op # "none" =>
    last.outcome \in {"ok", "failed", "invalid_dpi", "upload_not_found", "not_found",
                      "no_files", "too_large", "no_file", "no_name", "type_not_allowed"}

\* A cleanup in which a removal raised.
C14_Witness ==
  /\ last.op = "cleanup"
  /\ last.outcome = "failed"
  /\ ClaimHasOutput(last.id)

\* --------------------------------------------------------------------- C15
\* C15: a convert whose rendering takes longer than the allowed time ends
\* with the timeout outcome, which is not the generic failure outcome.
C15_TimeoutOutcome ==
  [][\A id \in UUIDs, fmt \in {JNull, JInt(1)}, failAt \in 0..MaxPages :
       (/\ ClaimHasUpload(id)
        /\ api_convert_timed(id, JNull, fmt, failAt, "beyond"))
       => last'.outcome = "timeout"]_vars

\* --------------------------------------------------------------------- C12
\* C12: for two different job ids a and b, a convert, package, cleanup or
\* status request on a leaves the upload files, the output directory and its
\* files and the archives of b as they were, and with them the answer of
\* status(b), wherever the request falls among the requests on b.
C12_JobsIndependent ==
  [][\A a, b \in JobIds :
       (/\ a # b
        /\ last'.id = a
        /\ last'.op \in {"convert", "package", "list", "cleanup", "status"})
       => /\ ClaimArtifacts(uploads', outdirs', archives', b)
               = ClaimArtifacts(uploads, outdirs, archives, b)
          /\ StatusOf(uploads', outdirs', b) = StatusOf(uploads, outdirs, b)]_vars

\* A cleanup of one job while the other has its upload, its output files and
\* its archive.
C12_Witness ==
  \E a, b \in JobIds :
    /\ a # b
    /\ last.op = "cleanup"
    /\ last.id = a
    /\ last.count >= 3
    /\ ClaimHasUpload(b)
    /\ ClaimHasOutput(b)
    /\ ClaimHasArchive(b)

\* --------------------------------------------------------------------- C13
\* C13: a convert(id) and a cleanup(id) that overlap are not serialized.
\* Cleanup ends in an error only at the removal of the directory, and only
\* because the directory holds a file that was written after cleanup listed
\* it; the witness is the other outcome of the race: both calls have
\* returned, cleanup with success, and output files of id exist.
C13_RmdirFailsOnRace ==
  (cl.pc = "done" /\ cl.outcome = "failed") =>
    /\ cv.pc # "idle"
    /\ cv.id = cl.id
    /\ cl.id \in DOMAIN outdirs
    /\ outdirs[cl.id] \ cl.listing # {}

\* Both calls have returned with success, cleanup having removed the upload,
\* and the job still has output files: status(id) is not 'not_found'.
C13_Witness ==
  /\ cv.pc = "done"
  /\ cl.pc = "done"
  /\ cv.id = cl.id
  /\ cl.outcome = "ok"
  /\ cl.count >= 1
  /\ cv.outcome = "ok"
  /\ ClaimHasOutput(cl.id)
  /\ StatusOf(uploads, outdirs, cl.id) # "not_found"

\* --------------------------------------------------------------------- C18
\* C18: a convert(id) that finds no upload, at the lookup or because the
\* upload has gone when the conversion starts, returns the not-found error
\* and has created no output directory.
C18_NoUploadNoTrace ==
  (cv.pc = "done" /\ cv.lost) =>
    /\ cv.outcome = "upload_not_found"
    /\ ~cv.created

\* --------------------------------------------------------------------- C19
\* C19 as stated: when cleanup(id) looks for archives after package(id)
\* listed the output files and before it opens its archive, both calls
\* return success and an archive of id is left although the job is cleaned
\* and status(id) answers 'not_found'.
C19_BothSucceed ==
  (pk.pc = "done" /\ cl.pc = "done" /\ pk.id = cl.id /\ pk.late) =>
    /\ cl.outcome = "ok"
    /\ pk.outcome = "ok"
    /\ ClaimHasArchive(pk.id)
    /\ job[pk.id] = "Cleaned"
    /\ StatusOf(uploads, outdirs, pk.id) = "not_found"

\* C19 amended: in that interleaving cleanup returns success and package
\* returns an error, its files being gone; the archive package opened is
\* left, without entries, although the job is cleaned and status(id)
\* answers 'not_found'. In no interleaving do both return success with an
\* archive left and status(id) 'not_found'.
C19_ArchiveOutlivesCleanup ==
  /\ (pk.pc = "done" /\ cl.pc = "done" /\ pk.id = cl.id /\ pk.late) =>
       /\ cl.outcome = "ok"
       /\ pk.outcome = "failed"
       /\ ClaimHasArchive(pk.id)
       /\ archives[<<"converted", "_">> \o pk.id \o <<".", "zip">>] = {}
       /\ job[pk.id] = "Cleaned"
       /\ StatusOf(uploads, outdirs, pk.id) = "not_found"
  /\ (pk.pc = "done" /\ cl.pc = "done" /\ pk.id = cl.id) =>
       ~(/\ cl.outcome = "ok"
         /\ pk.outcome = "ok"
         /\ ClaimHasArchive(pk.id)
         /\ StatusOf(uploads, outdirs, pk.id) = "not_found")

\* Both calls have returned and cleanup looked for archives between
\* package's listing and its opening of the archive.
C19_Witness ==
  /\ pk.pc = "done"
  /\ cl.pc = "done"
  /\ pk.id = cl.id
  /\ pk.late

\* --------------------------------------------------------------------- C21
\* C21: the count a successful cleanup(id) reports is the number of files
\* it removed: the upload files whose names start with id, the files of the
\* output directory of id and the archives converted_<id>....zip, all of
\* which are gone afterwards; the directory is not counted.
C21_CountIsFilesRemoved ==
  [][\A id \in ReqIds :
       (handle_cleanup(id) /\ last'.outcome = "ok")
       => LET ups == {f \in DOMAIN uploads : ClaimIsPrefix(id, f)}
              outs == IF id \in DOMAIN outdirs THEN outdirs[id] ELSE {}
              zips == {n \in DOMAIN archives :
                         /\ ClaimIsPrefix(<<"converted", "_">> \o id, n)
                         /\ n[Len(n)] = "zip"}
          IN /\ last'.count = Cardinality(ups) + Cardinality(outs) + Cardinality(zips)
             /\ DOMAIN uploads' = DOMAIN uploads \ ups
             /\ id \notin DOMAIN outdirs'
             /\ DOMAIN archives' = DOMAIN archives \ zips]_vars

\* A cleanup that removed an upload, more than one output file and an
\* archive.
C21_Witness ==
  /\ last.op = "cleanup"
  /\ last.outcome = "ok"
  /\ last.count >= 4

\* --------------------------------------------------------------------- C22
\* C22: cleanup(id) removes the entries of the output directory first and
\* the directory second. The directory is never removed while an entry is
\* in it, and a cleanup that found the directory never goes on to the
\* archives without having removed it: it removes it or ends in the error
\* of the removal, whatever the directory holds.
C22_EntriesThenDirectory ==
  [][/\ \A d \in DOMAIN outdirs : d \notin DOMAIN outdirs' => outdirs[d] = {}
     /\ (cl.pc = "scan" /\ cl'.pc # "scan") =>
          (cl'.pc = "zips" <=> cl.id \notin DOMAIN outdirs)
     /\ (cl.pc = "files" /\ cl'.pc # "files") =>
          /\ cl'.pc = "rmdir"
          /\ cl.id \in DOMAIN outdirs =>
               \A f \in outdirs'[cl.id] \cap cl.listing : f[Len(f)] = "/"
     /\ (cl.pc = "rmdir" /\ cl'.pc # "rmdir") =>
          \/ cl'.pc = "zips" /\ cl.id \notin DOMAIN outdirs'
          \/ cl'.pc = "done" /\ cl'.outcome = "failed"
                /\ outdirs' = outdirs]_vars

\* A cleanup has ended at the removal of a directory in which only the
\* subdirectory was left.
C22_Witness ==
  /\ cl.pc = "done"
  /\ cl.outcome = "failed"
  /\ cl.count >= 2
  /\ cl.id \in DOMAIN outdirs
  /\ outdirs[cl.id] = {<<"sub", "/">>}

\* --------------------------------------------------------------------- C23
\* C23: every file on disk carries the id of the job it belongs to, an id an
\* upload assigned: upload files are named <id>_<name>, output directories
\* <id>, their files converted_<id>_<page>.<ext>, archives
\* converted_<id>.zip; and a conversion that rendered pages was requested
\* under the id of the job whose upload it read.
C23_NamesCarryJobId ==
  /\ \A f \in DOMAIN uploads :
       \E u \in JobIds : job[u] # "None" /\ ClaimIsPrefix(u \o <<"_">>, f)
  /\ \A d \in DOMAIN outdirs :
       /\ d \in JobIds
       /\ job[d] # "None"
       /\ \A f \in outdirs[d] : ClaimIsPrefix(<<"converted", "_">> \o d \o <<"_">>, f)
  /\ \A n \in DOMAIN archives :
       \E u \in JobIds :
         job[u] # "None" /\ n = <<"converted", "_">> \o u \o <<".", "zip">>
  /\ (last.op = "convert" /\ last.rendered) =>
       (last.id \in JobIds /\ job[last.id] # "None")

\* --------------------------------------------------------------------- C24
\* C24: a cleanup(id) taken directly after a successful cleanup(id), and a
\* cleanup of an id no upload ever assigned, returns success with a count of
\* 0 and leaves uploads, output directories and archives as they were.
C24_CleanupIdempotent ==
  [][\A id \in ReqIds :
       (/\ handle_cleanup(id)
        /\ \/ last.op = "cleanup" /\ last.id = id /\ last.outcome = "ok"
           \/ id \notin JobIds
           \/ id \in JobIds /\ job[id] = "None")
       => /\ last'.outcome = "ok"
          /\ last'.count = 0
          /\ UNCHANGED <<uploads, outdirs, archives>>]_vars

\* --------------------------------------------------------------------- C25
\* Decimal numerals of the integers the inputs can spell, and the integers a
\* string spells once the blanks around it are dropped.
ClaimNumeral(n) ==
  LET d == <<"0", "1", "2", "3", "4", "5", "6", "7", "8", "9">>
  IN IF n < 10 THEN <<d[n + 1]>> ELSE <<d[(n \div 10) + 1], d[(n % 10) + 1]>>

ClaimSpelled(s) ==
  {v \in -99..99 :
     \E i \in 1..Len(s), j \in 1..Len(s) :
       /\ \A k \in 1..Len(s) : (k < i \/ k > j) => s[k] = " "
       /\ \/ v >= 0 /\ SubSeq(s, i, j) = ClaimNumeral(v)
          \/ v >= 0 /\ SubSeq(s, i, j) = <<"+">> \o ClaimNumeral(v)
          \/ v <= 0 /\ SubSeq(s, i, j) = <<"-">> \o ClaimNumeral(0 - v)}

====
